---- MODULE Spec2Model ----
(***************************************************************************)
(* A model of package AudioSegment (src/AudioSegment/audio_segment.go):    *)
(* the RIFF/WAVE chunk scanner and decoder, the AudioSegment value with    *)
(* its derived metrics, and Slice / AppendCrossfage / Export / From_file.  *)
(*                                                                         *)
(* Go slices are modelled as (backing array, offset, len, cap) over a heap *)
(* of byte arrays, so that aliasing between a slice and the slice it was   *)
(* cut from, and the in-place behaviour of the built-in append, are part   *)
(* of the model.  uint32 values are pairs of 16-bit halves with wrapping   *)
(* addition, uint16 multiplication wraps modulo 2^16.                      *)
(***************************************************************************)
EXTENDS Integers, Sequences, FiniteSets, TLC

VARIABLES heap, segs, last, calls, conv

vars == <<heap, segs, last, calls, conv>>

-----------------------------------------------------------------------------
(* Bounds of the model. *)

\* calls made in one run of the program
MaxCalls == 3
\* spare capacity, in bytes, that a reallocating append may add
MaxGrow == 1
\* largest index or millisecond value passed to Slice and AppendCrossfage
MaxArg == 2

-----------------------------------------------------------------------------
(* Fixed-width integers. *)

Pow16 == 256 * 256

\* a uint32 as its two 16-bit halves
U32(n) == [hi |-> n \div Pow16, lo |-> n % Pow16]

Add32(a, b) ==
  LET lo == a.lo + b.lo
  IN  [hi |-> (a.hi + b.hi + (lo \div Pow16)) % Pow16, lo |-> lo % Pow16]

Lt32(a, b) == a.hi < b.hi \/ (a.hi = b.hi /\ a.lo < b.lo)

Le32(a, b) == a = b \/ Lt32(a, b)

\* int(x) of a uint32 x on a 64-bit build; used where the value is below 2^31
Int32(a) == a.hi * Pow16 + a.lo

Mul16(a, b) == (a * b) % Pow16

\* little-endian encodings used to lay out the input files
LE16(n) == <<n % 256, n \div 256>>

LE32(u) == LE16(u.lo) \o LE16(u.hi)

-----------------------------------------------------------------------------
(* Byte readers. *)

bytes2UShort(b) == b[1] + 256 * b[2]

bytes2UInt(b) == [hi |-> b[3] + 256 * b[4], lo |-> b[1] + 256 * b[2]]

TagFmt == <<102, 109, 116, 32>>

TagData == <<100, 97, 116, 97>>

TagList == <<76, 73, 83, 84>>

\* data[lo:hi] on a slice of capacity cap: Go checks 0 <= lo <= hi <= cap
SliceInRange(lo, hi, cap) == Le32(lo, hi) /\ Le32(hi, cap)

\* the bytes buf[lo:hi], buf being the backing array from offset 0
BytesAt(buf, lo, hi) == SubSeq(buf, Int32(lo) + 1, Int32(hi))

-----------------------------------------------------------------------------
(* extract_wav_headers: buf is the backing array, n = len(data),            *)
(* cap = Len(buf).  The result is [panic, chunks].                         *)

MaxChunks == 10

DataStart == 12

\* One pass of the loop from state st = [pos, subchunks].  The chunk read and
\* the next state are bound through singleton sets, so that each iteration is
\* evaluated once.
RECURSIVE ScanFrom(_, _, _)
ScanFrom(buf, n, st) ==
  IF ~(Lt32(Add32(st.pos, U32(8)), U32(n)) /\ Len(st.subchunks) < MaxChunks)
  THEN [panic |-> FALSE, chunks |-> st.subchunks]
  ELSE IF ~SliceInRange(st.pos, Add32(st.pos, U32(4)), U32(Len(buf)))
          \/ ~SliceInRange(Add32(st.pos, U32(4)), Add32(st.pos, U32(8)), U32(Len(buf)))
  THEN [panic |-> TRUE, chunks |-> st.subchunks]
  ELSE CHOOSE res \in
         { IF c.id = TagData
           THEN [panic |-> FALSE, chunks |-> Append(st.subchunks, c)]
           ELSE CHOOSE r \in
                  { ScanFrom(buf, n, nx) :
                      nx \in {[pos       |-> Add32(Add32(st.pos, c.size), U32(8)),
                               subchunks |-> Append(st.subchunks, c)]} } : TRUE
           : c \in {[id       |-> BytesAt(buf, st.pos, Add32(st.pos, U32(4))),
                     position |-> st.pos,
                     size     |-> bytes2UInt(BytesAt(buf, Add32(st.pos, U32(4)),
                                                     Add32(st.pos, U32(8))))]} } : TRUE

extract_wav_headers(buf, n) ==
  ScanFrom(buf, n, [pos |-> U32(DataStart), subchunks |-> <<>>])

-----------------------------------------------------------------------------
(* Panic values. *)

ErrBounds == "runtime error: slice bounds out of range"

ErrDivide == "runtime error: integer divide by zero"

ErrNil == "runtime error: invalid memory address or nil pointer dereference"

ErrFmts == "Couldn't find fmts header in wav data"

ErrFormat == "Unknown audio format in wav data"

ErrData == "Couldn't find data header in wav data"

Err24 == "sample cannot be 24-bit"

ErrXfOriginal == "Crossfade is longer than the original AudioSegment"

ErrXfAppended == "Crossfade is longer than the appended AudioSegment"

ErrIO == "I/O error"

NoErr == "none"

-----------------------------------------------------------------------------------------------------------------------------------------------------
(* read_wav_data: the result is [err, ...]; with err = NoErr it carries    *)
(* the WavData fields, raw_data as the slice header (off, len, cap) into   *)
(* the buffer that was read.  The function is split where it binds a       *)
(* local: ReadHeaders is its body from the scan result on, ReadFormat its  *)
(* body from pos := format.position + 8 on, with data_hdr the last header. *)

Failed(e) == [err |-> e]

IsFmt(h) == h.id = TagFmt

PcmFormats == {1, 65534}

MinFmtSize == 16

ReadFormat(buf, pos, data_hdr) ==
  IF ~SliceInRange(pos, Add32(pos, U32(2)), U32(Len(buf))) THEN Failed(ErrBounds)
  ELSE IF bytes2UShort(BytesAt(buf, pos, Add32(pos, U32(2)))) \notin PcmFormats
  THEN Failed(ErrFormat)
  ELSE IF ~SliceInRange(Add32(pos, U32(2)), Add32(pos, U32(4)), U32(Len(buf)))
          \/ ~SliceInRange(Add32(pos, U32(4)), Add32(pos, U32(8)), U32(Len(buf)))
          \/ ~SliceInRange(Add32(pos, U32(14)), Add32(pos, U32(16)), U32(Len(buf)))
  THEN Failed(ErrBounds)
  ELSE IF data_hdr.id # TagData THEN Failed(ErrData)
  ELSE IF ~SliceInRange(Add32(data_hdr.position, U32(8)),
                        Add32(Add32(data_hdr.position, U32(8)), data_hdr.size),
                        U32(Len(buf)))
  THEN Failed(ErrBounds)
  ELSE [err             |-> NoErr,
        audio_format    |-> bytes2UShort(BytesAt(buf, pos, Add32(pos, U32(2)))),
        channels        |-> bytes2UShort(BytesAt(buf, Add32(pos, U32(2)), Add32(pos, U32(4)))),
        sample_rate     |-> bytes2UInt(BytesAt(buf, Add32(pos, U32(4)), Add32(pos, U32(8)))),
        bits_per_sample |-> bytes2UShort(BytesAt(buf, Add32(pos, U32(14)), Add32(pos, U32(16)))),
        raw_data        |-> [off |-> Int32(data_hdr.position) + 8,
                             len |-> Int32(data_hdr.size),
                             cap |-> Len(buf) - (Int32(data_hdr.position) + 8)]]

ReadHeaders(buf, scan) ==
  IF scan.panic THEN Failed(ErrBounds)
  ELSE IF Len(SelectSeq(scan.chunks, IsFmt)) = 0
          \/ Lt32(SelectSeq(scan.chunks, IsFmt)[1].size, U32(MinFmtSize))
  THEN Failed(ErrFmts)
  ELSE ReadFormat(buf, Add32(SelectSeq(scan.chunks, IsFmt)[1].position, U32(8)),
                  scan.chunks[Len(scan.chunks)])

read_wav_data(buf, n) == ReadHeaders(buf, extract_wav_headers(buf, n))

-----------------------------------------------------------------------------
(* new_audio_segment_with_wav on a buffer that becomes heap array arr.     *)
(* An AudioSegment is its metadata and the slice header its data field     *)
(* points to; frame_rate is kept as an integer (the inputs of the model    *)
(* keep it below 2^31).  FromWavData is the body after read_wav_data.      *)

FromWavData(wav_data, arr) ==
  IF wav_data.err # NoErr THEN wav_data
  ELSE IF wav_data.bits_per_sample \div 8 = 3 THEN Failed(Err24)
  ELSE [err |-> NoErr,
        obj |-> [arr          |-> arr,
                 off          |-> wav_data.raw_data.off,
                 len          |-> wav_data.raw_data.len,
                 cap          |-> wav_data.raw_data.cap,
                 channels     |-> wav_data.channels,
                 sample_width |-> wav_data.bits_per_sample \div 8,
                 frame_rate   |-> Int32(wav_data.sample_rate),
                 frame_width  |-> Mul16(wav_data.channels, wav_data.bits_per_sample \div 8)]]

new_audio_segment_with_wav(buf, n, arr) == FromWavData(read_wav_data(buf, n), arr)

\* the zero AudioSegment: its data pointer is nil, which array 0 stands for
NewAudioSegment ==
  [arr |-> 0, off |-> 0, len |-> 0, cap |-> 0,
   channels |-> 0, sample_width |-> 0, frame_rate |-> 0, frame_width |-> 0]

NilData(p) == p.arr = 0

-----
(* Derived metrics of an AudioSegment.                                     *)

\* The pair (int(+Inf), int(NaN)) of the build: Go leaves the conversion of
\* a float64 that int cannot represent to the implementation.  amd64 gives
\* the most negative int for both, arm64 saturates +Inf and gives 0 for NaN.
\* IntMin and IntMax stand for the two extremes of int.
IntMax == 1000000000

IntMin == -IntMax

ConvChoices == {[inf |-> IntMin, nan |-> IntMin], [inf |-> IntMax, nan |-> 0]}

\* FrameCount panics when data is nil (the dereference comes first) or
\* frame_width = 0 (integer divide by zero)
FrameCountPanics(p) == NilData(p) \/ p.frame_width = 0

FrameCountErr(p) == IF NilData(p) THEN ErrNil ELSE ErrDivide

FrameCount(p) == p.len \div p.frame_width

FrameCountMs(p, ms) == ms * (p.frame_rate \div 1000)

\* math.Round of a non-negative quotient n / d: half away from zero
RoundDiv(n, d) == (2 * n + d) \div (2 * d)

AudioSegment_Len(p) ==
  IF p.frame_rate = 0
  THEN IF FrameCount(p) = 0 THEN conv.nan ELSE conv.inf
  ELSE RoundDiv(1000 * FrameCount(p), p.frame_rate)

parsePosition(p, val) ==
  FrameCountMs(p, IF val < 0 THEN AudioSegment_Len(p) + val ELSE val)

\* the bytes read through p.data in heap h
Data(h, p) == IF NilData(p) THEN <<>> ELSE SubSeq(h[p.arr], p.off + 1, p.off + p.len)

Zeros(k) == [i \in 1..k |-> 0]

-----------------------------------------------------------------------------
(* Segment operations.  Each returns [err, ...]; with err = NoErr, obj is  *)
(* the new segment.                                                        *)

spawn(p, data) ==
  [p EXCEPT !.arr = data.arr, !.off = data.off, !.len = data.len, !.cap = data.cap]

Slice(p, start, end) ==
  IF NilData(p) THEN Failed(ErrNil)
  ELSE IF 0 <= start /\ start <= end /\ end <= p.cap
  THEN [err |-> NoErr,
        obj |-> spawn(p, [arr |-> p.arr, off |-> p.off + start,
                          len |-> end - start, cap |-> p.cap - start])]
  ELSE Failed(ErrBounds)

Overlay(p, seg) == p

Fade(p) == p

\* append that extends the slice in place without copying b's bytes
GoAppend_NoCopy(h, a, b, grow) ==
  LET n == a.len + b.len
  IN  IF n <= a.cap
      THEN [heap |-> h,
            data |-> [arr |-> a.arr, off |-> a.off, len |-> n, cap |-> a.cap]]
      ELSE [heap |-> Append(h, Data(h, a) \o Data(h, b) \o Zeros(grow)),
            data |-> [arr |-> Len(h) + 1, off |-> 0, len |-> n, cap |-> n + grow]]

\* the built-in append(a, b...): in place when cap(a) has room, otherwise
\* into a new array of capacity len + grow, which gets index Len(h) + 1
GoAppend(h, a, b, grow) ==
  LET n == a.len + b.len
  IN  IF n <= a.cap
      THEN [heap |-> [h EXCEPT ![a.arr] =
                        SubSeq(@, 1, a.off + a.len) \o Data(h, b)
                          \o SubSeq(@, a.off + n + 1, Len(@))],
            data |-> [arr |-> a.arr, off |-> a.off, len |-> n, cap |-> a.cap]]
      ELSE [heap |-> Append(h, Data(h, a) \o Data(h, b) \o Zeros(grow)),
            data |-> [arr |-> Len(h) + 1, off |-> 0, len |-> n, cap |-> n + grow]]

ErrNoReturn == "missing return"

\* the steps after the two bound checks: both Slice calls with their Fade,
\* the Overlay whose value is dropped, then the end of the function body,
\* which holds no return statement
Crossfade(p, seg, crossfade) ==
  LET xf == Slice(p, -crossfade, AudioSegment_Len(p))
  IN  IF xf.err # NoErr THEN Failed(xf.err)
      ELSE LET head == Slice(seg, 0, crossfade)
           IN  IF head.err # NoErr THEN Failed(head.err)
               ELSE [err |-> ErrNoReturn,
                     dropped |-> Overlay(Fade(xf.obj), Fade(head.obj))]

\* AppendCrossfage with the two bound checks in the other order
AppendCrossfage_ChecksSwapped(h, p, seg, crossfade, grow) ==
  IF crossfade = 0
  THEN IF NilData(p) \/ NilData(seg) THEN Failed(ErrNil)
       ELSE LET r == GoAppend(h, p, seg, grow)
            IN  [err |-> NoErr, obj |-> spawn(p, r.data), heap |-> r.heap]
  ELSE IF FrameCountPanics(seg) THEN Failed(FrameCountErr(seg))
  ELSE IF crossfade > AudioSegment_Len(seg) THEN Failed(ErrXfAppended)
  ELSE IF FrameCountPanics(p) THEN Failed(FrameCountErr(p))
  ELSE IF crossfade > AudioSegment_Len(p) THEN Failed(ErrXfOriginal)
  ELSE Crossfade(p, seg, crossfade)

AppendCrossfage(h, p, seg, crossfade, grow) ==
  IF crossfade = 0
  THEN IF NilData(p) \/ NilData(seg) THEN Failed(ErrNil)
       ELSE LET r == GoAppend(h, p, seg, grow)
            IN  [err |-> NoErr, obj |-> spawn(p, r.data), heap |-> r.heap]
  ELSE IF FrameCountPanics(p) THEN Failed(FrameCountErr(p))
  ELSE IF crossfade > AudioSegment_Len(p) THEN Failed(ErrXfOriginal)
  ELSE IF FrameCountPanics(seg) THEN Failed(FrameCountErr(seg))
  ELSE IF crossfade > AudioSegment_Len(seg) THEN Failed(ErrXfAppended)
  ELSE Crossfade(p, seg, crossfade)

\* Export: what reaches the file system
Export(h, p, format, createOk) ==
  IF format = "wav"
  THEN IF ~createOk THEN Failed(ErrIO)
       ELSE IF NilData(p) THEN Failed(ErrNil)
       ELSE [err |-> NoErr, written |-> TRUE, bytes |-> Data(h, p)]
  ELSE [err |-> NoErr, written |-> FALSE]

\* From_file: ret is "segment", "nil" or "panic"
Returned(r) ==
  IF r.err = NoErr THEN [ret |-> "segment", err |-> NoErr, obj |-> r.obj]
  ELSE [ret |-> "panic", err |-> r.err]

From_file(buf, n, format, openOk, arr) ==
  IF format = "wav"
  THEN IF ~openOk THEN [ret |-> "panic", err |-> ErrIO]
       ELSE Returned(new_audio_segment_with_wav(buf, n, arr))
  ELSE [ret |-> "nil", err |-> NoErr]

-----------------------------------------------------------------------------
(* The input files.  An input is the bytes of a file and the spare         *)
(* capacity ReadAll leaves behind them (ReadAll always leaves some, and    *)
(* the spare bytes are zero).                                              *)

RiffHeader == <<82, 73, 70, 70>> \o Zeros(4) \o <<87, 65, 86, 69>>

Chunk(tag, size, body) == tag \o LE32(size) \o body

FmtChunk(code, ch, rate, bits) ==
  Chunk(TagFmt, U32(16),
        LE16(code) \o LE16(ch) \o LE32(U32(rate)) \o Zeros(6) \o LE16(bits))

Samples(k) == [i \in 1..k |-> 16 + i]

DataChunk(k) == Chunk(TagData, U32(k), Samples(k))

Wav(ch, rate, bits, k) == RiffHeader \o FmtChunk(1, ch, rate, bits) \o DataChunk(k)

In(bytes, slack) == [bytes |-> bytes, slack |-> slack]

Near32(back) == [hi |-> 65535, lo |-> 65536 - back]

RECURSIVE Repeat(_, _)
Repeat(s, k) == IF k = 0 THEN <<>> ELSE s \o Repeat(s, k - 1)

\* files that decode to a segment
GoodInputs ==
  { In(Wav(1, 2000, 16, 4), 1),      \* mono 16-bit 2000 Hz, 2 frames, 1 ms
    In(Wav(1, 500, 16, 1), 1),       \* half a frame at 500 Hz
    In(Wav(0, 1000, 16, 2), 1),      \* no channels
    In(Wav(1, 1000, 4, 2), 1),       \* 4 bits per sample
    In(Wav(32768, 1000, 16, 2), 1),  \* channels * sample_width = 2^16
    In(Wav(1, 0, 8, 2), 1),          \* sample rate 0
    \* the data chunk declares 3 bytes, the file holds 2 of them
    In(RiffHeader \o FmtChunk(1, 1, 1000, 8) \o Chunk(TagData, U32(3), Samples(2)), 2) }

\* files that exercise the scanner and the decoder's checks
OtherInputs ==
  { In(<<>>, 1),
    In(RiffHeader, 1),
    \* fmt, LIST, data
    In(RiffHeader \o FmtChunk(1, 1, 1000, 24) \o Chunk(TagList, U32(2), Samples(2))
         \o DataChunk(2), 1),
    \* fmt, data, and a chunk after data
    In(RiffHeader \o FmtChunk(65534, 1, 1000, 24) \o DataChunk(2)
         \o Chunk(TagList, U32(0), <<>>), 1),
    \* the header of an empty data chunk ends the file
    In(Wav(1, 1000, 16, 0), 1),
    \* an empty data chunk and one more byte
    In(Wav(1, 1000, 24, 0) \o <<0>>, 1),
    \* eleven chunks before fmt
    In(RiffHeader \o Repeat(Chunk(TagList, U32(0), <<>>), 11)
         \o FmtChunk(1, 1, 1000, 16) \o DataChunk(2), 1),
    \* fmt and five more bytes
    In(RiffHeader \o FmtChunk(1, 1, 1000, 16) \o Samples(5), 1),
    \* chunk sizes that wrap the position around 2^32
    In(RiffHeader \o Chunk(TagList, Near32(4), <<>>) \o FmtChunk(1, 1, 1000, 16)
         \o DataChunk(2), 1),
    In(RiffHeader \o Chunk(TagList, Near32(24), <<>>) \o FmtChunk(1, 1, 1000, 16)
         \o DataChunk(2), 1),
    \* a data size that wraps the end of the range around 2^32
    In(RiffHeader \o FmtChunk(1, 1, 1000, 16) \o Chunk(TagData, Near32(1), Samples(2)), 1),
    \* a data chunk declaring 100 bytes and holding 2
    In(RiffHeader \o FmtChunk(1, 1, 1000, 16) \o Chunk(TagData, U32(100), Samples(2)), 1),
    \* no fmt chunk
    In(RiffHeader \o DataChunk(2), 1),
    \* a fmt chunk of 14 bytes
    In(RiffHeader \o Chunk(TagFmt, U32(14), LE16(1) \o LE16(1) \o Zeros(10)) \o DataChunk(2), 1),
    \* a fmt chunk cut after the first byte of its body
    In(RiffHeader \o Chunk(TagFmt, U32(16), <<1>>), 1),
    \* 24-bit samples
    In(Wav(1, 1000, 24, 2), 1),
    \* IEEE float
    In(RiffHeader \o FmtChunk(3, 1, 1000, 24) \o DataChunk(2), 1) }

Inputs == GoodInputs \cup OtherInputs

Formats == {"wav", "mp3"}

\* the slice ReadAll returns: backing array and length
ReadAll(in) == [buf |-> in.bytes \o Zeros(in.slack), n |-> Len(in.bytes)]

-----------------------------------------------------------------------------
(* State: heap is the byte arrays segments point into, segs the segments   *)
(* constructed so far, last the latest call with its arguments and what it *)
(* returned, calls the number of calls made, conv the build's float-to-int *)
(* conversion.  A panic ends the process (nothing in the package           *)
(* recovers), so no call follows a call that panicked.                     *)

Init ==
  /\ heap = <<>>
  /\ segs = {}
  /\ last = [op |-> "init", err |-> NoErr]
  /\ calls = 0
  /\ conv \in ConvChoices

Running == last.err = NoErr /\ calls < MaxCalls

Args == -1..MaxArg

\* From_file(path, "wav") on a path that opens
DoDecode ==
  /\ Running
  /\ \E in \in Inputs :
     \E b \in {ReadAll(in)} :
     \E r \in {From_file(b.buf, b.n, "wav", TRUE, Len(heap) + 1)} :
           /\ last' = [op |-> "From_file", format |-> "wav", openOk |-> TRUE,
                       buf |-> b.buf, n |-> b.n, err |-> r.err, r |-> r,
                       scan |-> extract_wav_headers(b.buf, b.n)]
           /\ heap' = IF r.ret = "segment" THEN Append(heap, b.buf) ELSE heap
           /\ segs' = IF r.ret = "segment" THEN segs \cup {r.obj} ELSE segs
  /\ calls' = calls + 1
  /\ UNCHANGED conv

\* From_file with another format, or on a path that does not open: no file is read
DoFromFileOther ==
  /\ Running
  /\ \E format \in Formats, openOk \in BOOLEAN :
       /\ ~(format = "wav" /\ openOk)
       /\ \E r \in {From_file(<<>>, 0, format, openOk, Len(heap) + 1)} :
              last' = [op |-> "From_file", format |-> format, openOk |-> openOk,
                       err |-> r.err, r |-> r]
  /\ calls' = calls + 1
  /\ UNCHANGED <<heap, segs, conv>>

DoNew ==
  /\ Running
  /\ last' = [op |-> "NewAudioSegment", err |-> NoErr,
              r |-> [err |-> NoErr, obj |-> NewAudioSegment]]
  /\ segs' = segs \cup {NewAudioSegment}
  /\ calls' = calls + 1
  /\ UNCHANGED <<heap, conv>>

DoSlice ==
  /\ Running
  /\ \E p \in segs, start \in Args, end \in Args :
     \E r \in {Slice(p, start, end)} :
           /\ last' = [op |-> "Slice", p |-> p, start |-> start, end |-> end,
                       err |-> r.err, r |-> r]
           /\ segs' = IF r.err = NoErr THEN segs \cup {r.obj} ELSE segs
  /\ calls' = calls + 1
  /\ UNCHANGED <<heap, conv>>

DoAppend ==
  /\ Running
  /\ \E p \in segs, seg \in segs, crossfade \in Args, grow \in 0..MaxGrow :
     \E r \in {AppendCrossfage(heap, p, seg, crossfade, grow)} :
     \E ok \in {r.err = NoErr} :
           /\ last' = [op |-> "Append", p |-> p, seg |-> seg, crossfade |-> crossfade,
                       pdata |-> Data(heap, p), segdata |-> Data(heap, seg),
                       segs |-> segs, err |-> r.err,
                       r |-> IF ok THEN [err |-> NoErr, obj |-> r.obj] ELSE r]
           /\ heap' = IF ok THEN r.heap ELSE heap
           /\ segs' = IF ok THEN segs \cup {r.obj} ELSE segs
  /\ calls' = calls + 1
  /\ UNCHANGED conv

DoExport ==
  /\ Running
  /\ \E p \in segs, format \in Formats, createOk \in BOOLEAN :
     \E r \in {Export(heap, p, format, createOk)} :
           last' = [op |-> "Export", p |-> p, format |-> format, err |-> r.err, r |-> r]
  /\ calls' = calls + 1
  /\ UNCHANGED <<heap, segs, conv>>

Next == DoDecode \/ DoFromFileOther \/ DoNew \/ DoSlice \/ DoAppend \/ DoExport

Spec == Init /\ [][Next]_vars

-----------------------------------------------------------------------------
(* Properties.                                                             *)

IsDecode == last.op = "From_file" /\ last.format = "wav" /\ last.openOk

SameFormat(a, b) ==
  /\ a.channels = b.channels
  /\ a.frame_rate = b.frame_rate
  /\ a.sample_width = b.sample_width

Abs(x) == IF x < 0 THEN -x ELSE x

\* the duration of p is a number: FrameCount does not panic and the quotient
\* that Len rounds is finite
HasDuration(p) == p.frame_width > 0 /\ p.frame_rate > 0

WholeFrames(p) == p.len % p.frame_width = 0

WholeMs(p) == (1000 * FrameCount(p)) % p.frame_rate = 0

\* samples[frames_for_ms(a) * frame_width, frames_for_ms(b) * frame_width)
MsRange(h, p, a, b) ==
  SubSeq(Data(h, p), parsePosition(p, a) * p.frame_width + 1,
         parsePosition(p, b) * p.frame_width)

\* C1: no call changes the bytes read through a segment that exists
\* already (segments are immutable).
C1_SegmentsImmutable ==
  [][\A s \in segs : Data(heap', s) = Data(heap, s)]_vars

\* The walk of the chunk list the scanner is specified to make: one
\* descriptor per header from offset pos, advancing by 8 + size, until a
\* "data" descriptor was emitted, fewer than 8 bytes remain before the end
\* of the buffer, or 10 descriptors were emitted.  A size of 2^16 or more
\* leads past the end of every buffer of the model.
RECURSIVE RefWalk(_, _, _, _)
RefWalk(buf, n, pos, k) ==
  IF n - pos < 8 \/ k = MaxChunks THEN <<>>
  ELSE CHOOSE w \in
    { <<c>> \o (IF c.id = TagData \/ c.size.hi > 0 THEN <<>>
                ELSE RefWalk(buf, n, pos + 8 + c.size.lo, k + 1))
      : c \in {[id       |-> SubSeq(buf, pos + 1, pos + 4),
                position |-> U32(pos),
                size     |-> bytes2UInt(SubSeq(buf, pos + 5, pos + 8))]} } : TRUE

\* C2: the scanner returns exactly the reference walk of the chunk list.
C2_ScannerIsReferenceWalk ==
  IsDecode =>
    /\ ~last.scan.panic
    /\ last.scan.chunks = RefWalk(last.buf, last.n, DataStart, 0)

\* C3: for 1 <= N <= duration, Slice(-N, duration) succeeds and returns the
\* segment Slice(duration - N, duration) returns.  (For N = 0 the first
\* endpoint is not negative.)
C3_NegativeIndexSymmetry ==
  (/\ last.op = "Slice"
   /\ HasDuration(last.p)
   /\ last.start < 0
   /\ -last.start <= AudioSegment_Len(last.p)
   /\ last.end = AudioSegment_Len(last.p))
  => /\ last.err = NoErr
     /\ last.r = Slice(last.p, AudioSegment_Len(last.p) + last.start, last.end)

\* C4: for 0 <= start <= end <= duration, Slice(start, end) returns the
\* sample bytes between the frames the two millisecond endpoints stand for.
C4_SliceTakesMilliseconds ==
  (/\ last.op = "Slice"
   /\ HasDuration(last.p)
   /\ 0 <= last.start /\ last.start <= last.end
   /\ last.end <= AudioSegment_Len(last.p))
  => /\ last.err = NoErr
     /\ Data(heap, last.r.obj) = MsRange(heap, last.p, last.start, last.end)

\* the call returned no segment and changed neither input
AppendFailedCleanly ==
  /\ "obj" \notin DOMAIN last.r
  /\ segs = last.segs
  /\ Data(heap, last.p) = last.pdata
  /\ Data(heap, last.seg) = last.segdata

\* C5: with crossfade > 0, AppendCrossfage fails with the 'longer than the
\* original' error when crossfade exceeds the duration of the receiver, and
\* with the 'longer than the appended' error when it exceeds the duration
\* of the appended segment but not that of the receiver; no segment is
\* produced and neither input changes.
C5_CrossfadeBounds ==
  (last.op = "Append" /\ last.crossfade > 0 /\ ~FrameCountPanics(last.p))
  => /\ last.crossfade > AudioSegment_Len(last.p)
          => (last.err = ErrXfOriginal /\ AppendFailedCleanly)
     /\ (/\ last.crossfade <= AudioSegment_Len(last.p)
         /\ ~FrameCountPanics(last.seg)
         /\ last.crossfade > AudioSegment_Len(last.seg))
          => (last.err = ErrXfAppended /\ AppendFailedCleanly)

\* a crossfade within the receiver (2 ms or more long) and beyond the
\* appended segment was refused
C5_Witness ==
  /\ last.op = "Append"
  /\ last.crossfade > 1
  /\ HasDuration(last.p) /\ HasDuration(last.seg)
  /\ last.crossfade <= AudioSegment_Len(last.p)
  /\ last.crossfade > AudioSegment_Len(last.seg)
  /\ last.err = ErrXfAppended

\* C6: for 0 < crossfade <= min of the two durations, AppendCrossfage
\* returns a segment of duration a + b - crossfade, whose bytes are a's
\* first a - crossfade milliseconds, the mix (as long as a's last crossfade
\* milliseconds), and b from crossfade milliseconds on.
C6_CrossfadeResult ==
  (/\ last.op = "Append"
   /\ HasDuration(last.p) /\ HasDuration(last.seg)
   /\ 0 < last.crossfade
   /\ last.crossfade <= AudioSegment_Len(last.p)
   /\ last.crossfade <= AudioSegment_Len(last.seg))
  => /\ last.err = NoErr
     /\ AudioSegment_Len(last.r.obj)
          = AudioSegment_Len(last.p) + AudioSegment_Len(last.seg) - last.crossfade
     /\ LET first == MsRange(heap, last.p, 0, AudioSegment_Len(last.p) - last.crossfade)
            tail  == MsRange(heap, last.p, AudioSegment_Len(last.p) - last.crossfade,
                             AudioSegment_Len(last.p))
            rest  == MsRange(heap, last.seg, last.crossfade, AudioSegment_Len(last.seg))
            out   == Data(heap, last.r.obj)
        IN  /\ Len(out) = Len(first) + Len(tail) + Len(rest)
            /\ SubSeq(out, 1, Len(first)) = first
            /\ SubSeq(out, Len(first) + Len(tail) + 1, Len(out)) = rest

\* what C7 says of every Append: it succeeds, its bytes are those of the
\* receiver followed by those of the appended segment, and it carries the
\* receiver's format
AppendConcatenates ==
  /\ last.err = NoErr
  /\ Data(heap, last.r.obj) = last.pdata \o last.segdata
  /\ SameFormat(last.r.obj, last.p)
  /\ last.r.obj.frame_width = last.p.frame_width

DurationSum == AudioSegment_Len(last.p) + AudioSegment_Len(last.seg)

\* C7 as stated, for the segments that have a duration: Append of two
\* segments of one format concatenates, and its duration is the sum of the
\* two durations, exactly when both hold a whole number of milliseconds of
\* frames and within 1 ms otherwise.
C7_AdditiveForAnySegments ==
  (/\ last.op = "Append" /\ last.crossfade = 0
   /\ SameFormat(last.p, last.seg)
   /\ HasDuration(last.p))
  => /\ AppendConcatenates
     /\ Abs(AudioSegment_Len(last.r.obj) - DurationSum) <= 1
     /\ (WholeMs(last.p) /\ WholeMs(last.seg))
          => AudioSegment_Len(last.r.obj) = DurationSum

\* C7 amended: Append of two segments of one format that hold data (decoded,
\* sliced or appended ones) concatenates; when the
\* format has a duration (frame width and rate above 0) and both inputs
\* hold a whole number of frames, its duration is the sum of the two
\* durations, exactly when both hold a whole number of milliseconds and
\* within 1 ms otherwise.
C7_AdditiveForWholeFrames ==
  (/\ last.op = "Append" /\ last.crossfade = 0
   /\ ~NilData(last.p) /\ ~NilData(last.seg)
   /\ SameFormat(last.p, last.seg))
  => /\ AppendConcatenates
     /\ (HasDuration(last.p) /\ WholeFrames(last.p) /\ WholeFrames(last.seg))
          => /\ Abs(AudioSegment_Len(last.r.obj) - DurationSum) <= 1
             /\ (WholeMs(last.p) /\ WholeMs(last.seg))
                  => AudioSegment_Len(last.r.obj) = DurationSum

\* two non-empty whole-frame segments were appended and the rounding of the
\* result differs from that of the parts
C7_Witness ==
  /\ last.op = "Append" /\ last.crossfade = 0 /\ last.err = NoErr
  /\ SameFormat(last.p, last.seg)
  /\ HasDuration(last.p) /\ WholeFrames(last.p) /\ WholeFrames(last.seg)
  /\ last.p.len > 0 /\ last.seg.len > 0
  /\ AudioSegment_Len(last.r.obj) # DurationSum

\* the body of the last scanned chunk lies within the n bytes of the file
BodyInBuffer(c, n) == c.size.hi = 0 /\ c.position.hi = 0
                      /\ c.position.lo + 8 + c.size.lo <= n

LastChunk == last.scan.chunks[Len(last.scan.chunks)]

\* C8: when the data chunk's body is not contained in the buffer, decoding
\* fails with an error of its own (not the runtime's range error) and
\* returns no segment; when it is contained, the decoded bytes are the body.
C8_TruncatedDataChunk ==
  (/\ IsDecode
   /\ ~last.scan.panic /\ Len(last.scan.chunks) > 0
   /\ LastChunk.id = TagData
   /\ last.err \notin {ErrFmts, ErrFormat, Err24})
  => IF BodyInBuffer(LastChunk, last.n)
     THEN last.r.ret = "segment"
          => Data(heap, last.r.obj)
               = SubSeq(last.buf, Int32(LastChunk.position) + 9,
                        Int32(LastChunk.position) + 8 + Int32(LastChunk.size))
     ELSE last.r.ret = "panic" /\ last.err # ErrBounds

\* C9: with a format other than "wav", Export and From_file end in an error.
C9_UnsupportedFormatFails ==
  /\ (last.op = "Export" /\ last.format # "wav") => last.err # NoErr
  /\ (last.op = "From_file" /\ last.format # "wav") => last.r.ret = "panic"

\* C10: every segment constructed has a frame width above 0 when it holds
\* samples.
C10_FrameWidthPositive ==
  \A s \in segs : s.len > 0 => s.frame_width > 0

====
